---- MODULE Spec2Model ----
(***************************************************************************)
(* wxmplot.interactive: the process-wide registries of plot and image      *)
(* windows, the lazily constructed wx application, the default theme and    *)
(* the drawing forwarders (plot, newplot, update_trace, plot_setlimits,     *)
(* plot_text, plot_arrow, plot_marker, plot_axhline, plot_axvline, hist,    *)
(* imshow, contour), together with the windows' exit and cursor callbacks.  *)
(*                                                                          *)
(* Spec follows every function and callback, interleaved. SpecDraw,         *)
(* SpecTheme and SpecCursor follow some of them with more inputs: keyword   *)
(* dictionaries, every theme name, histories longer than MAX_CURSHIST.      *)
(*                                                                          *)
(* Python values are represented as follows.                                *)
(*   - None, for an optional tuple or string argument, is the empty tuple.  *)
(*   - A string that the code transforms (a theme name) is the tuple of its *)
(*     character codes, so that str.lower() is computed, not assumed.       *)
(*   - A formatted window title 'Plot Window %i' % n is <<"Plot Window", n>>*)
(*   - A keyword dictionary **kws is a function from its keys to values.    *)
(*   - A window object is a record; its identity is the field id, which is  *)
(*     fresh for every construction.                                        *)
(*   - An exception that leaves a function is recorded in ret.exc.          *)
(*   - A reading of the wall clock, a float the code stores and never reads *)
(*     again, is the one value Time: the model keeps that a reading was     *)
(*     stored and not which, so that it assumes nothing of the clock.       *)
(***************************************************************************)
EXTENDS Integers, Sequences, FiniteSets, TLC

\* ---------------------------------------------------------------- constants

MAX_WINDOWS == 100
MAX_CURSHIST == 100

\* Bounds of the model.
\* Window constructions in one run.
MaxInst == 2
\* Cursor events delivered to one window.
MaxEvents == 102
\* Cursor events delivered to one window while every function is followed.
FewEvents == 2

None == <<>>

\* ------------------------------------------------------------- theme names

light == <<108, 105, 103, 104, 116>>
dark == <<100, 97, 114, 107>>
Solarize_Light2 == <<83, 111, 108, 97, 114, 105, 122, 101, 95, 76, 105, 103, 104, 116, 50>>
nonexistent == <<110, 111, 110, 101, 120, 105, 115, 116, 101, 110, 116>>

\* The keys of config.Themes, as the docstring of available_themes lists them.
Themes ==
    { light,                                                       \* 'light'
      dark,                                                        \* 'dark'
      <<109, 97, 116, 112, 108, 111, 116, 108, 105, 98>>,          \* 'matplotlib'
      <<115, 101, 97, 98, 111, 114, 110>>,                         \* 'seaborn'
      <<103, 103, 112, 108, 111, 116>>,                            \* 'ggplot'
      <<98, 109, 104>>,                                            \* 'bmh'
      <<102, 105, 118, 101, 116, 104, 105, 114, 116, 121, 101, 105, 103, 104, 116>>,  \* 'fivethirtyeight'
      <<103, 114, 97, 121, 115, 99, 97, 108, 101>>,                \* 'grayscale'
      <<100, 97, 114, 107, 95, 98, 97, 99, 107, 103, 114, 111, 117, 110, 100>>,  \* 'dark_background'
      <<116, 97, 98, 108, 101, 97, 117, 45, 99, 111, 108, 111, 114, 98, 108, 105, 110, 100, 49, 48>>,  \* 'tableau-colorblind10'
      <<115, 101, 97, 98, 111, 114, 110, 45, 98, 114, 105, 103, 104, 116>>,  \* 'seaborn-bright'
      <<115, 101, 97, 98, 111, 114, 110, 45, 99, 111, 108, 111, 114, 98, 108, 105, 110, 100>>,  \* 'seaborn-colorblind'
      <<115, 101, 97, 98, 111, 114, 110, 45, 100, 97, 114, 107>>,  \* 'seaborn-dark'
      <<115, 101, 97, 98, 111, 114, 110, 45, 100, 97, 114, 107, 103, 114, 105, 100>>,  \* 'seaborn-darkgrid'
      <<115, 101, 97, 98, 111, 114, 110, 45, 100, 97, 114, 107, 45, 112, 97, 108, 101, 116, 116, 101>>,  \* 'seaborn-dark-palette'
      <<115, 101, 97, 98, 111, 114, 110, 45, 100, 101, 101, 112>>,  \* 'seaborn-deep'
      <<115, 101, 97, 98, 111, 114, 110, 45, 110, 111, 116, 101, 98, 111, 111, 107>>,  \* 'seaborn-notebook'
      <<115, 101, 97, 98, 111, 114, 110, 45, 109, 117, 116, 101, 100>>,  \* 'seaborn-muted'
      <<115, 101, 97, 98, 111, 114, 110, 45, 112, 97, 115, 116, 101, 108>>,  \* 'seaborn-pastel'
      <<115, 101, 97, 98, 111, 114, 110, 45, 112, 97, 112, 101, 114>>,  \* 'seaborn-paper'
      <<115, 101, 97, 98, 111, 114, 110, 45, 112, 111, 115, 116, 101, 114>>,  \* 'seaborn-poster'
      <<115, 101, 97, 98, 111, 114, 110, 45, 116, 97, 108, 107>>,  \* 'seaborn-talk'
      <<115, 101, 97, 98, 111, 114, 110, 45, 116, 105, 99, 107, 115>>,  \* 'seaborn-ticks'
      <<115, 101, 97, 98, 111, 114, 110, 45, 119, 104, 105, 116, 101>>,  \* 'seaborn-white'
      <<115, 101, 97, 98, 111, 114, 110, 45, 119, 104, 105, 116, 101, 103, 114, 105, 100>>,  \* 'seaborn-whitegrid'
      Solarize_Light2 }                                            \* 'Solarize_Light2'

\* Names that are not keys of Themes: 'DARK', 'Dark', 'SEABORN-TALK',
\* 'solarize_light2', 'nonexistent'.
OtherNames ==
    { <<68, 65, 82, 75>>,
      <<68, 97, 114, 107>>,
      <<83, 69, 65, 66, 79, 82, 78, 45, 84, 65, 76, 75>>,
      <<115, 111, 108, 97, 114, 105, 122, 101, 95, 108, 105, 103, 104, 116, 50>>,
      nonexistent }

\* The names set_theme is called with.
ThemeInputs == Themes \cup OtherNames

\* str.lower() on ASCII text.
Lower(s) == [i \in 1..Len(s) |-> IF s[i] \in 65..90 THEN s[i] + 32 ELSE s[i]]

\* -------------------------------------------------------------- the inputs

\* Handles passed as win: negative, zero, in range, above MAX_WINDOWS.
Handles == {-100, 0, 1, 250}

\* Handles used while cursor events are followed.
CursorHandles == {0, 1}

\* One set of size / wintitle / theme overrides, and none.
NoOverrides == [size |-> None, wintitle |-> None, theme |-> None]
Overrides == { NoOverrides,
               [size |-> <<640, 480>>, wintitle |-> <<"custom", 0>>, theme |-> dark] }

\* ---------------------------------------------------------------- the state

VARIABLES
    wxapp,          \* the module global wxapp
    wxGetApp,       \* what wx.GetApp() returns: the toolkit's current application
    napps,          \* number of wx.App objects constructed by get_wxapp
    DEFAULT_THEME,  \* the module global DEFAULT_THEME
    PLOT_DISPLAYS,  \* the module global PLOT_DISPLAYS: key -> PlotDisplay
    IMG_DISPLAYS,   \* the module global IMG_DISPLAYS: key -> ImageDisplay
    nextId,         \* identity of the next window object constructed
    destroyed,      \* identities of the windows on which Destroy() was called
    call,           \* the function or callback that ran last, with its arguments
    ret,            \* what it returned or raised
    frame           \* the calls it made on the resolved window's frame

vars == <<wxapp, wxGetApp, napps, DEFAULT_THEME, PLOT_DISPLAYS, IMG_DISPLAYS,
          nextId, destroyed, call, ret, frame>>

NoApp == [by |-> "None", n |-> 0]
HostApp == [by |-> "host", n |-> 0]
NewApp(n) == [by |-> "wxmplot", n |-> n]

EmptyDict == [k \in {} |-> None]

Call(fn, win, flag, theme, t) ==
    [fn |-> fn, win |-> win, flag |-> flag, theme |-> theme, t |-> t]

RetNone == [tag |-> "None", id |-> 0, window |-> 0, app |-> NoApp, exc |-> ""]
RetWindow(w) == [tag |-> "window", id |-> w.id, window |-> w.window, app |-> NoApp, exc |-> ""]
RetApp(a) == [tag |-> "app", id |-> 0, window |-> 0, app |-> a, exc |-> ""]
RetExc(e) == [tag |-> "exc", id |-> 0, window |-> 0, app |-> NoApp, exc |-> e]
\* What the axes' hist method returned.
RetHist == [tag |-> "hist", id |-> 0, window |-> 0, app |-> NoApp, exc |-> ""]

\* The methods called on the window a forwarder resolved, in order, and the
\* keywords passed to the drawing method.
NoFrame == [id |-> 0, calls |-> <<>>, kws |-> EmptyDict]
FrameCall(w, calls, kws) == [id |-> w.id, calls |-> calls, kws |-> kws]

Init ==
    /\ wxapp = NoApp
    /\ wxGetApp \in {NoApp, HostApp}
    /\ napps = 0
    /\ DEFAULT_THEME = light
    /\ PLOT_DISPLAYS = EmptyDict
    /\ IMG_DISPLAYS = EmptyDict
    /\ nextId = 1
    /\ destroyed = {}
    /\ call = Call("import", 0, FALSE, None, 0)
    /\ ret = RetNone
    /\ frame = NoFrame

\* ---------------------------------------------------------------- get_wxapp

\* get_wxapp without the wx.GetApp() lookup: constructs whenever the global is
\* unset.
get_wxapp_noGetApp(app, env) ==
    IF app = NoApp
    THEN [wxapp |-> NewApp(napps + 1), env |-> NewApp(napps + 1), made |-> 1]
    ELSE [wxapp |-> app, env |-> env, made |-> 0]

\* get_wxapp on the global wxapp = app with wx.GetApp() = env: the new value of
\* the global (which is returned), the toolkit's application afterwards, and
\* the number of wx.App objects constructed.
get_wxapp(app, env) ==
    IF app = NoApp
    THEN IF env = NoApp
         THEN [wxapp |-> NewApp(napps + 1), env |-> NewApp(napps + 1), made |-> 1]
         ELSE [wxapp |-> env, env |-> env, made |-> 0]
    ELSE [wxapp |-> app, env |-> env, made |-> 0]

\* The effect of one call of get_wxapp() on the state.
CallGetWxApp ==
    LET r == get_wxapp(wxapp, wxGetApp) IN
    /\ wxapp' = r.wxapp
    /\ wxGetApp' = r.env
    /\ napps' = napps + r.made

GetWxApp ==
    /\ CallGetWxApp
    /\ call' = Call("get_wxapp", 0, FALSE, None, 0)
    /\ ret' = RetApp(get_wxapp(wxapp, wxGetApp).wxapp)
    /\ frame' = NoFrame
    /\ UNCHANGED <<DEFAULT_THEME, PLOT_DISPLAYS, IMG_DISPLAYS, nextId, destroyed>>

\* ------------------------------------------------------------- the windows

\* win = max(1, min(MAX_WINDOWS, int(abs(win))))
Abs(n) == IF n < 0 THEN -n ELSE n
Min(a, b) == IF a < b THEN a ELSE b
Max(a, b) == IF a > b THEN a ELSE b
Clamp(win) == Max(1, Min(MAX_WINDOWS, Abs(win)))

\* if window not in DISPLAYS: DISPLAYS[window] = self
Register(displays, window, self) ==
    IF window \notin DOMAIN displays THEN displays @@ (window :> self) ELSE displays

\* An exit callback that leaves the registry alone.
PopDisplay_keeps(displays, window) == displays

\* if self.window in DISPLAYS: DISPLAYS.pop(self.window)
PopDisplay(displays, window) ==
    IF window \in DOMAIN displays
    THEN [k \in DOMAIN displays \ {window} |-> displays[k]]
    ELSE displays

\* The object PlotDisplay(window, size, theme, wintitle) constructs.
PlotDisplay(window, size, theme, wintitle) ==
    [ id |-> nextId,
      window |-> window,
      title |-> IF wintitle = None THEN <<"Plot Window", window>> ELSE wintitle,
      size |-> size,
      theme |-> IF theme = None THEN DEFAULT_THEME ELSE theme,
      cursor_hist |-> <<>> ]

\* The object ImageDisplay(window, size, wintitle) constructs.
ImageDisplay(window, size, wintitle) ==
    [ id |-> nextId,
      window |-> window,
      title |-> IF wintitle = None THEN <<"Image Window", window>> ELSE wintitle,
      size |-> size,
      cursor_hist |-> <<>> ]

\* A lookup that never finds the key.
PlotRegistered_never(win) == FALSE

\* if win in PLOT_DISPLAYS
PlotRegistered(win) == win \in DOMAIN PLOT_DISPLAYS

\* if win in IMG_DISPLAYS
ImageRegistered(win) == win \in DOMAIN IMG_DISPLAYS

\* The display get_plot_window returns.
PlotWindowOf(win, size, wintitle, theme) ==
    LET k == Clamp(win) IN
    IF PlotRegistered(k) THEN PLOT_DISPLAYS[k] ELSE PlotDisplay(k, size, theme, wintitle)

\* The effect of get_plot_window on the registry, the window identities and the
\* application: a registered key changes nothing, any other key constructs a
\* PlotDisplay, whose __init__ calls get_wxapp and registers the object.
CallGetPlotWindow(win, size, wintitle, theme) ==
    LET k == Clamp(win) IN
    IF PlotRegistered(k)
    THEN UNCHANGED <<PLOT_DISPLAYS, nextId, wxapp, wxGetApp, napps>>
    ELSE /\ nextId <= MaxInst
         /\ CallGetWxApp
         /\ PLOT_DISPLAYS' = Register(PLOT_DISPLAYS, k, PlotDisplay(k, size, theme, wintitle))
         /\ nextId' = nextId + 1

GetPlotWindow(win, o) ==
    /\ CallGetPlotWindow(win, o.size, o.wintitle, o.theme)
    /\ call' = Call("get_plot_window", win, FALSE, o.theme, 0)
    /\ ret' = RetWindow(PlotWindowOf(win, o.size, o.wintitle, o.theme))
    /\ frame' = NoFrame
    /\ UNCHANGED <<DEFAULT_THEME, IMG_DISPLAYS, destroyed>>

\* The effect of get_image_window on the registry, the window identities and
\* the application. For a registered key the function reads the name
\* IMG_DISPLAY, which the module does not define: NameError, nothing changed.
CallGetImageWindow(win, size, wintitle) ==
    LET k == Clamp(win) IN
    IF ImageRegistered(k)
    THEN UNCHANGED <<IMG_DISPLAYS, nextId, wxapp, wxGetApp, napps>>
    ELSE /\ nextId <= MaxInst
         /\ CallGetWxApp
         /\ IMG_DISPLAYS' = Register(IMG_DISPLAYS, k, ImageDisplay(k, size, wintitle))
         /\ nextId' = nextId + 1

\* What get_image_window returns or raises.
ImageWindowRet(win, size, wintitle) ==
    LET k == Clamp(win) IN
    IF ImageRegistered(k)
    THEN RetExc("NameError")
    ELSE RetWindow(ImageDisplay(k, size, wintitle))

GetImageWindow(win, o) ==
    /\ CallGetImageWindow(win, o.size, o.wintitle)
    /\ call' = Call("get_image_window", win, FALSE, None, 0)
    /\ ret' = ImageWindowRet(win, o.size, o.wintitle)
    /\ frame' = NoFrame
    /\ UNCHANGED <<DEFAULT_THEME, PLOT_DISPLAYS, destroyed>>

\* What Destroy() leaves of a window object.
Destroyed(kind, w) == [kind |-> kind, id |-> w.id, window |-> w.window]

\* PlotDisplay.onExit of the window registered under key k.
PlotOnExit(k) ==
    /\ k \in DOMAIN PLOT_DISPLAYS
    /\ PLOT_DISPLAYS' = PopDisplay(PLOT_DISPLAYS, PLOT_DISPLAYS[k].window)
    /\ destroyed' = destroyed \cup {Destroyed("plot", PLOT_DISPLAYS[k])}
    /\ call' = Call("PlotDisplay.onExit", k, FALSE, None, 0)
    /\ ret' = RetNone
    /\ frame' = NoFrame
    /\ UNCHANGED <<wxapp, wxGetApp, napps, DEFAULT_THEME, IMG_DISPLAYS, nextId>>

\* ImageDisplay.onExit of the window registered under key k.
ImageOnExit(k) ==
    /\ k \in DOMAIN IMG_DISPLAYS
    /\ IMG_DISPLAYS' = PopDisplay(IMG_DISPLAYS, IMG_DISPLAYS[k].window)
    /\ destroyed' = destroyed \cup {Destroyed("image", IMG_DISPLAYS[k])}
    /\ call' = Call("ImageDisplay.onExit", k, FALSE, None, 0)
    /\ ret' = RetNone
    /\ frame' = NoFrame
    /\ UNCHANGED <<wxapp, wxGetApp, napps, DEFAULT_THEME, PLOT_DISPLAYS, nextId>>

\* ------------------------------------------------------- the cursor history

\* The position a cursor event reports; the code stores it unread. The y is
\* the one of every event followed, the x the one of a window's fifth event.
CursorXY == <<5, 7>>
CursorIXY == <<2, 3>>

\* The x of the next event of a window with history hist. The events of a
\* window are given their number in the window as x, so that an entry tells
\* which event it records.
EventX(hist) == IF hist = <<>> THEN 1 ELSE hist[1][1] + 1

\* time.time() during an event: the wall clock, which the code reads and stores
\* and never compares. Whatever float it returns, earlier than, equal to or
\* later than the readings stored before, is written as this one value; the
\* histories of the code that differ in their readings alone are one history
\* here.
Time == "time.time()"

\* A truncation that keeps the last MAX_CURSHIST entries: it drops the newest.
onCursor_dropsNewest(hist, entry) ==
    LET h == <<entry>> \o hist IN
    IF Len(h) > MAX_CURSHIST THEN SubSeq(h, 2, Len(h)) ELSE h

\* self.cursor_hist.insert(0, entry)
\* if len(self.cursor_hist) > MAX_CURSHIST:
\*     self.cursor_hist = self.cursor_hist[:MAX_CURSHIST]
onCursor(hist, entry) ==
    LET h == <<entry>> \o hist IN
    IF Len(h) > MAX_CURSHIST THEN SubSeq(h, 1, MAX_CURSHIST) ELSE h

\* PlotDisplay.onCursor(x, y) of the window registered under key k.
PlotOnCursor(k, x, y) ==
    /\ k \in DOMAIN PLOT_DISPLAYS
    /\ PLOT_DISPLAYS' = [PLOT_DISPLAYS EXCEPT ![k].cursor_hist =
           onCursor(PLOT_DISPLAYS[k].cursor_hist, <<x, y, Time>>)]
    /\ call' = Call("PlotDisplay.onCursor", k, FALSE, None, x)
    /\ ret' = RetNone
    /\ frame' = NoFrame
    /\ UNCHANGED <<wxapp, wxGetApp, napps, DEFAULT_THEME, IMG_DISPLAYS, nextId, destroyed>>

\* ImageDisplay.onCursor(x, y, ix, iy, val) of the window registered under key
\* k.
ImageOnCursor(k, x, y, ix, iy) ==
    /\ k \in DOMAIN IMG_DISPLAYS
    /\ IMG_DISPLAYS' = [IMG_DISPLAYS EXCEPT ![k].cursor_hist =
           onCursor(IMG_DISPLAYS[k].cursor_hist, <<x, y, ix, iy, Time>>)]
    /\ call' = Call("ImageDisplay.onCursor", k, FALSE, None, x)
    /\ ret' = RetNone
    /\ frame' = NoFrame
    /\ UNCHANGED <<wxapp, wxGetApp, napps, DEFAULT_THEME, PLOT_DISPLAYS, nextId, destroyed>>

\* The events followed: a window whose history is hist receives an event while
\* it has received fewer than maxEvents.
MayReceive(hist, maxEvents) == EventX(hist) <= maxEvents

\* The events of the windows registered under key k, numbered as they arrive.
PlotCursorEvent(k, maxEvents) ==
    /\ k \in DOMAIN PLOT_DISPLAYS
    /\ MayReceive(PLOT_DISPLAYS[k].cursor_hist, maxEvents)
    /\ PlotOnCursor(k, EventX(PLOT_DISPLAYS[k].cursor_hist), CursorXY[2])

ImageCursorEvent(k, maxEvents) ==
    /\ k \in DOMAIN IMG_DISPLAYS
    /\ MayReceive(IMG_DISPLAYS[k].cursor_hist, maxEvents)
    /\ ImageOnCursor(k, EventX(IMG_DISPLAYS[k].cursor_hist), CursorXY[2],
                     CursorIXY[1], CursorIXY[2])

\* ---------------------------------------------------------------- the theme

\* available_themes(): the keys of Themes.
available_themes == Themes

\* set_theme storing the name as given instead of its lower-case form.
set_theme_keepsCase(theme, current) ==
    IF Lower(theme) \in Themes
    THEN [theme |-> theme, exc |-> ""]
    ELSE [theme |-> current, exc |-> "ValueError"]

\* set_theme(theme) with DEFAULT_THEME = current: the new DEFAULT_THEME and the
\* exception raised ("" for none).
set_theme(theme, current) ==
    IF Lower(theme) \in Themes
    THEN [theme |-> Lower(theme), exc |-> ""]
    ELSE [theme |-> current, exc |-> "ValueError"]

SetTheme(theme) ==
    LET r == set_theme(theme, DEFAULT_THEME) IN
    /\ DEFAULT_THEME' = r.theme
    /\ call' = Call("set_theme", 0, FALSE, theme, 0)
    /\ ret' = IF r.exc = "" THEN RetNone ELSE RetExc(r.exc)
    /\ frame' = NoFrame
    /\ UNCHANGED <<wxapp, wxGetApp, napps, PLOT_DISPLAYS, IMG_DISPLAYS, nextId, destroyed>>

\* ----------------------------------------------------------- the forwarders

\* Keyword dictionaries: kws.get(key, default), kws without some keys, and
\* kws[key] = value.
Get(kws, key, default) == IF key \in DOMAIN kws THEN kws[key] ELSE default
Without(kws, keys) == [k \in DOMAIN kws \ keys |-> kws[k]]
SetKey(kws, key, value) ==
    [k \in DOMAIN kws \cup {key} |-> IF k = key THEN value ELSE kws[k]]

\* Styling options passed through to the frame.
StyleKws == { EmptyDict, [color |-> "red"] }

\* Keyword arguments newplot is called with besides win and wintitle.
NewplotKws ==
    { EmptyDict,
      [new |-> FALSE],
      [color |-> "red"],
      [new |-> FALSE, size |-> <<640, 480>>, theme |-> dark, color |-> "red"] }

\* plotter.Raise()
\* if new: plotter.plot(x, y, **kws) else: plotter.oplot(x, y, **kws)
PlotMethod(new) == IF new THEN <<"Raise", "plot">> ELSE <<"Raise", "oplot">>

\* The body of plot(x, y, win, new, size, wintitle, theme, **kws).
PlotBody(win, new, size, wintitle, theme, kws) ==
    /\ CallGetPlotWindow(win, size, wintitle, theme)
    /\ ret' = RetWindow(PlotWindowOf(win, size, wintitle, theme))
    /\ frame' = FrameCall(PlotWindowOf(win, size, wintitle, theme), PlotMethod(new), kws)
    /\ UNCHANGED <<DEFAULT_THEME, IMG_DISPLAYS, destroyed>>

Plot(win, new, o, kws) ==
    /\ PlotBody(win, new, o.size, o.wintitle, o.theme, kws)
    /\ call' = Call("plot", win, new, o.theme, 0)

\* newplot without kws['new'] = True.
newplot_kws_unset(kws) == kws

\* kws['new'] = True
newplot_kws(kws) == SetKey(kws, "new", TRUE)

\* newplot(x, y, win, wintitle, **kws): plot(x, y, win=win, wintitle=wintitle,
\* **kws) after kws['new'] = True; plot binds new, size and theme from the
\* keywords and keeps the rest as its own kws.
NewPlot(win, wintitle, kws) ==
    LET kw == newplot_kws(kws) IN
    /\ PlotBody(win, Get(kw, "new", FALSE), Get(kw, "size", None), wintitle,
                Get(kw, "theme", None), Without(kw, {"new", "size", "theme"}))
    /\ call' = Call("newplot", win, Get(kws, "new", FALSE), Get(kws, "theme", None), 0)

\* if 'label' not in kws: kws['label'] = '_nolegend_'
WithLabel(kws) == IF "label" \in DOMAIN kws THEN kws ELSE SetKey(kws, "label", "_nolegend_")

\* plot_axhline: plotter.Raise(); plotter.panel.axes.axhline(...);
\* if delay_draw: plotter.panel.canvas.draw()
AxhlineCalls(delay_draw) ==
    IF delay_draw THEN <<"Raise", "axhline", "draw">> ELSE <<"Raise", "axhline">>

\* plot_axvline: plotter.Raise(); plotter.panel.axes.axvline(...);
\* if not delay_draw: plotter.panel.canvas.draw()
AxvlineCalls(delay_draw) ==
    IF ~delay_draw THEN <<"Raise", "axvline", "draw">> ELSE <<"Raise", "axvline">>

PlotAxhline(win, size, delay_draw, kws) ==
    /\ CallGetPlotWindow(win, size, None, None)
    /\ frame' = FrameCall(PlotWindowOf(win, size, None, None),
                          AxhlineCalls(delay_draw), WithLabel(kws))
    /\ call' = Call("plot_axhline", win, delay_draw, None, 0)
    /\ ret' = RetNone
    /\ UNCHANGED <<DEFAULT_THEME, IMG_DISPLAYS, destroyed>>

PlotAxvline(win, size, delay_draw, kws) ==
    /\ CallGetPlotWindow(win, size, None, None)
    /\ frame' = FrameCall(PlotWindowOf(win, size, None, None),
                          AxvlineCalls(delay_draw), WithLabel(kws))
    /\ call' = Call("plot_axvline", win, delay_draw, None, 0)
    /\ ret' = RetNone
    /\ UNCHANGED <<DEFAULT_THEME, IMG_DISPLAYS, destroyed>>

\* The body of imshow(map, x, y, colormap, win, wintitle, size, **kws): the
\* window's display method is called when get_image_window returned.
ImshowBody(win, size, wintitle, kws) ==
    LET r == ImageWindowRet(win, size, wintitle) IN
    /\ CallGetImageWindow(win, size, wintitle)
    /\ frame' = IF r.tag = "exc" THEN NoFrame
                ELSE [id |-> r.id, calls |-> <<"display">>, kws |-> kws]
    /\ UNCHANGED <<DEFAULT_THEME, PLOT_DISPLAYS, destroyed>>

Imshow(win, o, kws) ==
    /\ ImshowBody(win, o.size, o.wintitle, kws)
    /\ call' = Call("imshow", win, FALSE, None, 0)
    /\ ret' = ImageWindowRet(win, o.size, o.wintitle)

\* contour(map, x, y, **kws): kws.update(dict(style='contour')), then imshow,
\* whose result is not returned.
Contour(win, o, kws) ==
    LET r == ImageWindowRet(win, o.size, o.wintitle) IN
    /\ ImshowBody(win, o.size, o.wintitle, SetKey(kws, "style", "contour"))
    /\ call' = Call("contour", win, FALSE, None, 0)
    /\ ret' = IF r.tag = "exc" THEN r ELSE RetNone

\* A forwarder that resolves the plot window of win with get_plot_window(win,
\* size), calls the methods calls on it with the keywords kws, and returns
\* result.
Forward(fn, win, size, flag, calls, kws, result) ==
    /\ CallGetPlotWindow(win, size, None, None)
    /\ frame' = FrameCall(PlotWindowOf(win, size, None, None), calls, kws)
    /\ call' = Call(fn, win, flag, None, 0)
    /\ ret' = result
    /\ UNCHANGED <<DEFAULT_THEME, IMG_DISPLAYS, destroyed>>

\* update_trace(x, y, trace, win): trace -= 1, then
\* plotter.panel.update_line(trace, x, y, draw=True).
UpdateTrace(win, trace) ==
    Forward("update_trace", win, None, FALSE, <<"Raise", "update_line">>,
            [trace |-> trace - 1, draw |-> TRUE], RetNone)

\* plot_setlimits(win=win): plotter.panel.set_xylims(...); the window is not
\* raised.
PlotSetlimits(win) ==
    Forward("plot_setlimits", win, None, FALSE, <<"set_xylims">>, EmptyDict, RetNone)

\* plot_text(text, x, y, win, size=size): plotter.add_text(text, x, y,
\* rotation=rotation, ha=ha, va=va).
PlotText(win, size) ==
    Forward("plot_text", win, size, FALSE, <<"Raise", "add_text">>,
            [rotation |-> None, ha |-> "left", va |-> "center"], RetNone)

\* plot_arrow(x1, y1, x2, y2, win, size=size): plotter.add_arrow with the
\* default shape options (lengths in hundredths).
PlotArrow(win, size) ==
    Forward("plot_arrow", win, size, FALSE, <<"Raise", "add_arrow">>,
            [side |-> "left", shape |-> "full", color |-> "black", width |-> 0,
             head_length |-> 25, head_width |-> 5], RetNone)

\* plot_marker(x, y, win=win): get_plot_window(win=win, size=None), then
\* plotter.oplot([x], [y], marker=marker, markersize=size, label=label,
\* color=color).
PlotMarker(win) ==
    Forward("plot_marker", win, None, FALSE, <<"Raise", "oplot">>,
            [marker |-> "o", markersize |-> 4, label |-> "_nolegend_",
             color |-> "black"], RetNone)

\* hist(x, bins, win, new, size, title=title): axes.clear() if new,
\* axes.hist(x, bins=bins), set_title(title) unless title is None,
\* canvas.draw(); returns what axes.hist returned.
HistCalls(new, title) ==
    <<"Raise">> \o (IF new THEN <<"clear">> ELSE <<>>) \o <<"hist">>
        \o (IF title # None THEN <<"set_title">> ELSE <<>>) \o <<"draw">>

Hist(win, new, size, title) ==
    Forward("hist", win, size, new, HistCalls(new, title), [bins |-> 10], RetHist)

\* ------------------------------------------------------ the specifications

\* Theme names set while every function is followed: two keys of Themes and a
\* name that is none.
FewThemes == {light, dark, nonexistent}

\* Every function of the module and the windows' callbacks, interleaved; the
\* window options are passed to get_plot_window, get_image_window and plot.
Next ==
    \/ GetWxApp
    \/ \E theme \in FewThemes : SetTheme(theme)
    \/ \E win \in Handles, o \in Overrides : GetPlotWindow(win, o)
    \/ \E win \in Handles, o \in Overrides : GetImageWindow(win, o)
    \/ \E k \in 1..MAX_WINDOWS : PlotOnExit(k)
    \/ \E k \in 1..MAX_WINDOWS : ImageOnExit(k)
    \/ \E k \in 1..MAX_WINDOWS : PlotCursorEvent(k, FewEvents)
    \/ \E k \in 1..MAX_WINDOWS : ImageCursorEvent(k, FewEvents)
    \/ \E win \in Handles, new \in BOOLEAN, o \in Overrides : Plot(win, new, o, EmptyDict)
    \/ \E win \in Handles, kws \in StyleKws : NewPlot(win, None, kws)
    \/ \E win \in Handles : UpdateTrace(win, 1)
    \/ \E win \in Handles : PlotSetlimits(win)
    \/ \E win \in Handles : PlotText(win, None)
    \/ \E win \in Handles : PlotArrow(win, None)
    \/ \E win \in Handles : PlotMarker(win)
    \/ \E win \in Handles, d \in BOOLEAN : PlotAxhline(win, None, d, EmptyDict)
    \/ \E win \in Handles, d \in BOOLEAN : PlotAxvline(win, None, d, EmptyDict)
    \/ \E win \in Handles, new \in BOOLEAN, o \in Overrides : Hist(win, new, None, o.wintitle)
    \/ \E win \in Handles : Imshow(win, NoOverrides, EmptyDict)
    \/ \E win \in Handles : Contour(win, NoOverrides, EmptyDict)

Spec == Init /\ [][Next]_vars

\* The forwarders to plot windows, with their window options and keywords.
NextDraw ==
    \/ \E win \in Handles, new \in BOOLEAN, o \in Overrides, kws \in StyleKws :
          Plot(win, new, o, kws)
    \/ \E win \in Handles, o \in Overrides, kws \in NewplotKws :
          NewPlot(win, o.wintitle, kws)
    \/ \E win \in Handles, o \in Overrides, d \in BOOLEAN, kws \in StyleKws :
          PlotAxhline(win, o.size, d, kws)
    \/ \E win \in Handles, o \in Overrides, d \in BOOLEAN, kws \in StyleKws :
          PlotAxvline(win, o.size, d, kws)
    \/ \E win \in Handles : UpdateTrace(win, 1)
    \/ \E win \in Handles : PlotSetlimits(win)
    \/ \E win \in Handles, o \in Overrides : PlotText(win, o.size)
    \/ \E win \in Handles, o \in Overrides : PlotArrow(win, o.size)
    \/ \E win \in Handles : PlotMarker(win)
    \/ \E win \in Handles, new \in BOOLEAN, o \in Overrides, p \in Overrides :
          Hist(win, new, o.size, p.wintitle)
    \/ \E k \in 1..MAX_WINDOWS : PlotOnExit(k)

SpecDraw == Init /\ [][NextDraw]_vars

\* The default theme.
NextTheme ==
    \E theme \in ThemeInputs : SetTheme(theme)

SpecTheme == Init /\ [][NextTheme]_vars

\* The cursor histories of the windows of one handle.
NextCursor ==
    \/ \E win \in CursorHandles : GetPlotWindow(win, NoOverrides)
    \/ \E win \in CursorHandles : GetImageWindow(win, NoOverrides)
    \/ \E k \in 1..MAX_WINDOWS : PlotCursorEvent(k, MaxEvents)
    \/ \E k \in 1..MAX_WINDOWS : ImageCursorEvent(k, MaxEvents)

SpecCursor == Init /\ [][NextCursor]_vars

\* --------------------------------------------------------------- the claims

\* The handle a window resolution is specified to use: abs(h) clamped to
\* 1..MAX_WINDOWS.
Key(h) ==
    LET a == IF h < 0 THEN 0 - h ELSE h IN
    IF a < 1 THEN 1 ELSE IF a > MAX_WINDOWS THEN MAX_WINDOWS ELSE a

\* C1: for a handle whose plot window is registered, get_plot_window(h) and
\* plot(x, y, win=h, new=False) return the registered instance, construct no
\* window and leave the plot registry unchanged, whatever overrides are passed.
C1_RegisteredPlotWindowReused ==
    [][ ( /\ \/ call'.fn = "get_plot_window"
             \/ call'.fn = "plot" /\ ~call'.flag
          /\ Key(call'.win) \in DOMAIN PLOT_DISPLAYS )
        => /\ ret'.tag = "window"
           /\ ret'.id = PLOT_DISPLAYS[Key(call'.win)].id
           /\ PLOT_DISPLAYS' = PLOT_DISPLAYS
           /\ nextId' = nextId ]_vars

\* plot(x, y, win=h, new=False, size, wintitle, theme='dark') has returned a
\* window that was registered before without overrides, and that still has its
\* own title and theme.
C1_Witness ==
    /\ call.fn = "plot" /\ ~call.flag /\ call.theme = dark
    /\ ret.tag = "window"
    /\ ret.window \in DOMAIN PLOT_DISPLAYS
    /\ PLOT_DISPLAYS[ret.window].id = ret.id
    /\ PLOT_DISPLAYS[ret.window].theme = light
    /\ PLOT_DISPLAYS[ret.window].title = <<"Plot Window", ret.window>>

\* C2: get_image_window(h), and imshow and contour with win=h, return the
\* existing image window of the handle or create one, without error: imshow and
\* get_image_window return the window registered under the handle, contour
\* returns None.
C2_ImageWindowResolved ==
    /\ call.fn \in {"get_image_window", "imshow"} =>
          /\ ret.tag = "window"
          /\ ret.window \in DOMAIN IMG_DISPLAYS
          /\ IMG_DISPLAYS[ret.window].id = ret.id
    /\ call.fn = "contour" => ret.tag = "None"

\* Every key of each registry lies in 1..MAX_WINDOWS, each registry holds at
\* most MAX_WINDOWS entries, and the entry under key k has handle k.
RegistryInvariant ==
    /\ DOMAIN PLOT_DISPLAYS \subseteq 1..MAX_WINDOWS
    /\ DOMAIN IMG_DISPLAYS \subseteq 1..MAX_WINDOWS
    /\ Cardinality(DOMAIN PLOT_DISPLAYS) <= MAX_WINDOWS
    /\ Cardinality(DOMAIN IMG_DISPLAYS) <= MAX_WINDOWS
    /\ \A k \in DOMAIN PLOT_DISPLAYS : PLOT_DISPLAYS[k].window = k
    /\ \A k \in DOMAIN IMG_DISPLAYS : IMG_DISPLAYS[k].window = k

\* C3: for every integer handle h, get_plot_window(h) and get_image_window(h)
\* resolve to k = clamp(abs(h), 1, 100): the window returned has handle k and
\* is registered under key k, and the registries keep their invariant.
C3_ResolvedToClampedHandle ==
    /\ RegistryInvariant
    /\ call.fn = "get_plot_window" =>
          /\ ret.tag = "window"
          /\ ret.window = Key(call.win)
          /\ Key(call.win) \in DOMAIN PLOT_DISPLAYS
          /\ PLOT_DISPLAYS[Key(call.win)].id = ret.id
    /\ call.fn = "get_image_window" =>
          /\ ret.tag = "window"
          /\ ret.window = Key(call.win)
          /\ Key(call.win) \in DOMAIN IMG_DISPLAYS
          /\ IMG_DISPLAYS[Key(call.win)].id = ret.id

\* The identities of the windows that exist or were destroyed.
KnownIds ==
    {PLOT_DISPLAYS[k].id : k \in DOMAIN PLOT_DISPLAYS}
        \cup {IMG_DISPLAYS[k].id : k \in DOMAIN IMG_DISPLAYS}
        \cup {d.id : d \in destroyed}

\* C4: closing a registered window removes its handle from its registry and
\* removes no entry of another handle or of the other registry; the next
\* resolution of a handle that is not registered constructs and registers a
\* window that is none of the windows closed or open so far.
C4_CloseThenResolveConstructs ==
    [][ /\ call'.fn = "PlotDisplay.onExit" =>
              /\ call'.win \in DOMAIN PLOT_DISPLAYS
              /\ DOMAIN PLOT_DISPLAYS' = DOMAIN PLOT_DISPLAYS \ {call'.win}
              /\ \A j \in DOMAIN PLOT_DISPLAYS' : PLOT_DISPLAYS'[j] = PLOT_DISPLAYS[j]
              /\ IMG_DISPLAYS' = IMG_DISPLAYS
        /\ call'.fn = "ImageDisplay.onExit" =>
              /\ call'.win \in DOMAIN IMG_DISPLAYS
              /\ DOMAIN IMG_DISPLAYS' = DOMAIN IMG_DISPLAYS \ {call'.win}
              /\ \A j \in DOMAIN IMG_DISPLAYS' : IMG_DISPLAYS'[j] = IMG_DISPLAYS[j]
              /\ PLOT_DISPLAYS' = PLOT_DISPLAYS
        /\ (call'.fn = "get_plot_window" /\ Key(call'.win) \notin DOMAIN PLOT_DISPLAYS) =>
              /\ ret'.tag = "window"
              /\ ret'.id \notin KnownIds
              /\ Key(call'.win) \in DOMAIN PLOT_DISPLAYS'
              /\ PLOT_DISPLAYS'[Key(call'.win)].id = ret'.id
        /\ (call'.fn = "get_image_window" /\ Key(call'.win) \notin DOMAIN IMG_DISPLAYS) =>
              /\ ret'.tag = "window"
              /\ ret'.id \notin KnownIds
              /\ Key(call'.win) \in DOMAIN IMG_DISPLAYS'
              /\ IMG_DISPLAYS'[Key(call'.win)].id = ret'.id ]_vars

\* get_plot_window has just constructed the window of a handle whose earlier
\* plot window was closed.
C4_Witness ==
    /\ call.fn = "get_plot_window"
    /\ ret.tag = "window"
    /\ ret.id = nextId - 1
    /\ ret.window \in DOMAIN PLOT_DISPLAYS
    /\ PLOT_DISPLAYS[ret.window].id = ret.id
    /\ \E d \in destroyed : d.kind = "plot" /\ d.window = ret.window /\ d.id < ret.id

\* A history of events numbered as they arrived: at most MAX_CURSHIST entries,
\* which are the latest events of the window, the most recent first, none
\* missing between the first and the last. Nothing is said of the readings,
\* which follow the clock and not the order of the events.
HistoryOK(h) ==
    /\ Len(h) <= MAX_CURSHIST
    /\ \A i \in 1..Len(h) : h[i][1] = h[1][1] - (i - 1)
    /\ h # <<>> => Len(h) = Min(h[1][1], MAX_CURSHIST)

\* The history new is the history old with entry put first, and without the
\* oldest entry of old when old was full.
Recorded(old, new, entry) ==
    /\ new # <<>>
    /\ new[1] = entry
    /\ Len(new) = Min(Len(old) + 1, MAX_CURSHIST)
    /\ \A i \in 2..Len(new) : new[i] = old[i - 1]

\* C5: after any sequence of cursor events a window's history has at most 100
\* entries, its first entry is the most recent event, the entries are ordered
\* most recent first, and an event that reaches a full history drops exactly
\* the oldest entry.
C5_CursorHistory ==
    /\ [](/\ \A k \in DOMAIN PLOT_DISPLAYS : HistoryOK(PLOT_DISPLAYS[k].cursor_hist)
          /\ \A k \in DOMAIN IMG_DISPLAYS : HistoryOK(IMG_DISPLAYS[k].cursor_hist))
    /\ [][ /\ (call'.fn = "PlotDisplay.onCursor") =>
                 Recorded(PLOT_DISPLAYS[call'.win].cursor_hist,
                          PLOT_DISPLAYS'[call'.win].cursor_hist,
                          <<EventX(PLOT_DISPLAYS[call'.win].cursor_hist),
                            CursorXY[2], Time>>)
           /\ (call'.fn = "ImageDisplay.onCursor") =>
                 Recorded(IMG_DISPLAYS[call'.win].cursor_hist,
                          IMG_DISPLAYS'[call'.win].cursor_hist,
                          <<EventX(IMG_DISPLAYS[call'.win].cursor_hist),
                            CursorXY[2], CursorIXY[1], CursorIXY[2], Time>>) ]_vars

\* Event MAX_CURSHIST + 1 has just reached a plot window whose history was
\* full: the history holds MAX_CURSHIST entries, from that event back to the
\* second; an image window has a history too.
C5_Witness ==
    /\ call.fn = "PlotDisplay.onCursor"
    /\ LET h == PLOT_DISPLAYS[call.win].cursor_hist
       IN /\ Len(h) = MAX_CURSHIST
          /\ h[1][1] = MAX_CURSHIST + 1
          /\ h[MAX_CURSHIST][1] = 2
          /\ call.t = MAX_CURSHIST + 1
    /\ \E k \in DOMAIN IMG_DISPLAYS : Len(IMG_DISPLAYS[k].cursor_hist) > 0

\* A name is a recognised theme when it is the name of a theme, letter case
\* aside.
Recognised(name) == \E k \in Themes : Lower(k) = Lower(name)

\* C6: set_theme with a name that is not a recognised theme raises ValueError
\* and leaves the default theme unchanged, and the default theme is always a
\* member of the fixed theme set.
C6_DefaultThemeValid ==
    /\ [](DEFAULT_THEME \in Themes)
    /\ [][ (call'.fn = "set_theme" /\ ~Recognised(call'.theme))
           => /\ ret'.tag = "exc"
              /\ ret'.exc = "ValueError"
              /\ DEFAULT_THEME' = DEFAULT_THEME ]_vars

\* set_theme('nonexistent') has raised ValueError after the default theme was
\* set to 'dark', which it still is.
C6_Witness ==
    /\ call.fn = "set_theme"
    /\ ~Recognised(call.theme)
    /\ ret.exc = "ValueError"
    /\ DEFAULT_THEME = dark

\* C7: set_theme accepts every name available_themes() returns, making it the
\* default theme, and rejects only names outside that list.
C7_AvailableThemesAccepted ==
    call.fn = "set_theme" =>
        /\ call.theme \in available_themes =>
              ret.tag = "None" /\ DEFAULT_THEME = call.theme
        /\ ret.tag = "exc" => call.theme \notin available_themes

\* C8: every call of get_wxapp returns the one application instance, which
\* never changes once set; an application is constructed at most once, and
\* never when the toolkit already has one, which is then the one used.
C8_SingleApplication ==
    /\ [](/\ napps <= 1
          /\ call.fn = "get_wxapp" => ret.tag = "app" /\ ret.app # NoApp /\ ret.app = wxapp
          /\ nextId > 1 => wxapp # NoApp)
    /\ [][ /\ wxapp # NoApp => wxapp' = wxapp
           /\ napps' # napps => wxGetApp = NoApp
           /\ (wxGetApp # NoApp /\ wxapp' # NoApp) => wxapp' = wxGetApp ]_vars

\* get_wxapp has returned the application that the first of two window
\* constructions made, the only one constructed.
C8_Witness ==
    /\ call.fn = "get_wxapp"
    /\ ret.app = NewApp(1)
    /\ napps = 1
    /\ nextId > 2

\* The window a plot forwarder resolved: the one registered under the clamped
\* handle, returned, and the target of the frame call.
PlotterResolved ==
    /\ ret.tag = "window"
    /\ ret.window = Key(call.win)
    /\ ret.window \in DOMAIN PLOT_DISPLAYS
    /\ PLOT_DISPLAYS[ret.window].id = ret.id
    /\ frame.id = ret.id

\* C9: newplot(x, y, win=h, ...) does what plot(x, y, win=h, new=True, ...)
\* does: it resolves the window of h, calls the frame's plot operation, which
\* replaces the current plot, and returns the window; plot with new=False calls
\* the frame's oplot operation instead.
C9_NewplotIsPlotNew ==
    /\ [](/\ call.fn = "newplot" =>
                PlotterResolved /\ frame.calls = <<"Raise", "plot">> /\ "new" \notin DOMAIN frame.kws
          /\ call.fn = "plot" =>
                PlotterResolved /\ frame.calls = <<"Raise", IF call.flag THEN "plot" ELSE "oplot">>)
    /\ [][ call'.fn = "newplot" =>
              \E o \in Overrides, p \in Overrides, q \in Overrides, kws \in StyleKws :
                  PlotBody(call'.win, TRUE, o.size, p.wintitle, q.theme, kws) ]_vars

\* newplot(x, y, win=h, new=False, size, theme='dark', color='red') has called
\* the frame's plot operation with the colour alone.
C9_Witness ==
    /\ call.fn = "newplot"
    /\ call.theme = dark
    /\ frame.calls = <<"Raise", "plot">>
    /\ DOMAIN frame.kws = {"color"}
    /\ PlotterResolved

\* C10: plot_axhline and plot_axvline redraw the canvas exactly when delay_draw
\* is false.
C10_DelayDrawSkipsRedraw ==
    call.fn \in {"plot_axhline", "plot_axvline"} =>
        ((\E i \in 1..Len(frame.calls) : frame.calls[i] = "draw") <=> ~call.flag)

====
